---- MODULE Spec2Model ----
(***************************************************************************)
(* Gossipsub message identifiers and parameters of                         *)
(* lean_spec/subspecs/networking/gossipsub.py.                             *)
(*                                                                         *)
(* Two callers (Threads) run compute_message_id concurrently, each on its  *)
(* own arguments and locals; the module keeps no state between calls.      *)
(* GossipsubParameters is modelled with the class default of seen_ttl_secs *)
(* (evaluated once, when the class body runs), the construction of         *)
(* instances and attempted attribute assignments.                          *)
(*                                                                         *)
(* Byte strings are sequences of integers 0..255.                          *)
(***************************************************************************)
EXTENDS Integers, Sequences, FiniteSets, TLC

(***************************************************************************)
(* Bounds of the model.                                                    *)
(***************************************************************************)
\* longest generated topic, in bytes
MaxTopicLen == 2
\* longest generated payload and decompressor output, in bytes
MaxDataLen == 1
\* number of GossipsubParameters instances built in one run
MaxInstances == 2
\* largest second_per_slot of the chain configuration
MaxSecondPerSlot == 2
\* largest justification_lookback_slots of the chain configuration
MaxLookbackSlots == 2

(***************************************************************************)
(* hashlib.sha256 (FIPS 180-4).  A 32-bit word is <<hi, lo>>, two 16-bit   *)
(* halves, so that no intermediate value leaves TLC's integer range.       *)
(***************************************************************************)
HalfWord == 65536

\* the element of a one-element set; {e(x) : x \in {v}} evaluates v once
Only(S) == CHOOSE r \in S : TRUE

BitXor(a, b) == (a + b) % 2
BitAnd(a, b) == a * b

\* bit i of a
Bit(a, i) == (a \div (2 ^ i)) % 2

\* bitwise operations on 4-bit digits, tabulated
XorTable ==
    [a \in 0..15 |-> [b \in 0..15 |->
        BitXor(Bit(a, 0), Bit(b, 0)) + 2 * BitXor(Bit(a, 1), Bit(b, 1))
        + 4 * BitXor(Bit(a, 2), Bit(b, 2)) + 8 * BitXor(Bit(a, 3), Bit(b, 3))]]
AndTable ==
    [a \in 0..15 |-> [b \in 0..15 |->
        BitAnd(Bit(a, 0), Bit(b, 0)) + 2 * BitAnd(Bit(a, 1), Bit(b, 1))
        + 4 * BitAnd(Bit(a, 2), Bit(b, 2)) + 8 * BitAnd(Bit(a, 3), Bit(b, 3))]]

\* a bitwise operation on 16-bit values, digit by digit
Bitwise16(T, a, b) ==
      T[a \div 4096][b \div 4096] * 4096
    + T[(a \div 256) % 16][(b \div 256) % 16] * 256
    + T[(a \div 16) % 16][(b \div 16) % 16] * 16
    + T[a % 16][b % 16]

Xor32(x, y) ==
    Only({<<Bitwise16(XorTable, a[1], b[1]), Bitwise16(XorTable, a[2], b[2])>> :
            a \in {x}, b \in {y}})
And32(x, y) ==
    Only({<<Bitwise16(AndTable, a[1], b[1]), Bitwise16(AndTable, a[2], b[2])>> :
            a \in {x}, b \in {y}})
Not32(x) == Only({<<HalfWord - 1 - a[1], HalfWord - 1 - a[2]>> : a \in {x}})

\* addition modulo 2^32
Add32(x, y) ==
    Only({<<(a[1] + b[1] + ((a[2] + b[2]) \div HalfWord)) % HalfWord,
            (a[2] + b[2]) % HalfWord>> : a \in {x}, b \in {y}})

\* rotation to the right by n bits, 0 < n < 32, n # 16
RotR(x, n) ==
    Only({<<(s[1] \div (2 ^ (n % 16))) + (s[2] % (2 ^ (n % 16))) * (2 ^ (16 - (n % 16))),
            (s[2] \div (2 ^ (n % 16))) + (s[1] % (2 ^ (n % 16))) * (2 ^ (16 - (n % 16)))>> :
            s \in {IF n >= 16 THEN <<x[2], x[1]>> ELSE x}})

\* shift to the right by n bits, 0 < n < 16
ShR(x, n) ==
    Only({<<a[1] \div (2 ^ n), (a[2] \div (2 ^ n)) + (a[1] % (2 ^ n)) * (2 ^ (16 - n))>> :
            a \in {x}})

Ch(x, y, z) == Xor32(And32(x, y), And32(Not32(x), z))
Maj(x, y, z) == Xor32(Xor32(And32(x, y), And32(x, z)), And32(y, z))
BigSigma0(x) == Xor32(Xor32(RotR(x, 2), RotR(x, 13)), RotR(x, 22))
BigSigma1(x) == Xor32(Xor32(RotR(x, 6), RotR(x, 11)), RotR(x, 25))
SmallSigma0(x) == Xor32(Xor32(RotR(x, 7), RotR(x, 18)), ShR(x, 3))
SmallSigma1(x) == Xor32(Xor32(RotR(x, 17), RotR(x, 19)), ShR(x, 10))

\* the round constants
Sha256K == <<
    <<17034, 12184>>, <<28983, 17553>>, <<46528, 64463>>, <<59829, 56229>>,
    <<14678, 49755>>, <<23025, 4593>>, <<37439, 33444>>, <<43804, 24277>>,
    <<55303, 43672>>, <<4739, 23297>>, <<9265, 34238>>, <<21772, 32195>>,
    <<29374, 23924>>, <<32990, 45566>>, <<39900, 1703>>, <<49563, 61812>>,
    <<58523, 27073>>, <<61374, 18310>>, <<4033, 40390>>, <<9228, 41420>>,
    <<11753, 11375>>, <<19060, 33962>>, <<23728, 43484>>, <<30457, 35034>>,
    <<38974, 20818>>, <<43057, 50797>>, <<45059, 10184>>, <<48985, 32711>>,
    <<50912, 3059>>, <<54695, 37191>>, <<1738, 25425>>, <<5161, 10599>>,
    <<10167, 2693>>, <<11803, 8504>>, <<19756, 28156>>, <<21304, 3347>>,
    <<25866, 29524>>, <<30314, 2747>>, <<33218, 51502>>, <<37490, 11397>>,
    <<41663, 59553>>, <<43034, 26187>>, <<49739, 35696>>, <<51052, 20899>>,
    <<53650, 59417>>, <<54937, 1572>>, <<62478, 13701>>, <<4202, 41072>>,
    <<6564, 49430>>, <<7735, 27656>>, <<10056, 30540>>, <<13488, 48309>>,
    <<14620, 3251>>, <<20184, 43594>>, <<23452, 51791>>, <<26670, 28659>>,
    <<29839, 33518>>, <<30885, 25455>>, <<33992, 30740>>, <<36039, 520>>,
    <<37054, 65530>>, <<42064, 27883>>, <<48889, 41975>>, <<50801, 30962>>
>>

\* the initial hash value
Sha256H0 == <<
    <<27145, 58983>>, <<47975, 44677>>, <<15470, 62322>>, <<42319, 62778>>,
    <<20750, 21119>>, <<39685, 26764>>, <<8067, 55723>>, <<23520, 52505>>
>>

ZeroBytes(n) == [i \in 1..n |-> 0]

\* the message length in bits as 8 big-endian bytes (messages under 2^28 bytes)
BitLength(n) ==
    <<0, 0, 0, 0, ((8 * n) \div 16777216) % 256, ((8 * n) \div 65536) % 256,
      ((8 * n) \div 256) % 256, (8 * n) % 256>>

\* the message, 0x80, zeros up to 56 modulo 64, the bit length
Sha256Pad(m) ==
    m \o <<128>> \o ZeroBytes((119 - (Len(m) % 64)) % 64) \o BitLength(Len(m))

\* the 16 big-endian words of block b of the padded message p
Sha256Block(p, b) ==
    [i \in 1..16 |->
        <<p[64 * (b - 1) + 4 * (i - 1) + 1] * 256 + p[64 * (b - 1) + 4 * (i - 1) + 2],
          p[64 * (b - 1) + 4 * (i - 1) + 3] * 256 + p[64 * (b - 1) + 4 * (i - 1) + 4]>>]

\* the message schedule extended by n words; the halves are evaluated in turn
RECURSIVE Sha256Schedule(_, _)
Sha256Schedule(w, n) ==
    IF n = 0 THEN w
    ELSE IF n = 1
    THEN Append(w, Add32(Add32(SmallSigma1(w[Len(w) - 1]), w[Len(w) - 6]),
                         Add32(SmallSigma0(w[Len(w) - 14]), w[Len(w) - 15])))
    ELSE Only({Sha256Schedule(v, n - (n \div 2)) : v \in {Sha256Schedule(w, n \div 2)}})

\* one round on the working variables s = <<a, b, c, d, e, f, g, h>>
Sha256Round(s, k, w) ==
    Only({<<Add32(t1, t2), s[1], s[2], s[3], Add32(s[4], t1), s[5], s[6], s[7]>> :
            t1 \in {Add32(Add32(Add32(s[8], BigSigma1(s[5])), Ch(s[5], s[6], s[7])),
                          Add32(k, w))},
            t2 \in {Add32(BigSigma0(s[1]), Maj(s[1], s[2], s[3]))}})

\* rounds lo..hi with the schedule w; the halves are evaluated in turn
RECURSIVE Sha256Rounds(_, _, _, _)
Sha256Rounds(s, w, lo, hi) ==
    IF lo = hi THEN Sha256Round(s, Sha256K[lo], w[lo])
    ELSE Only({Sha256Rounds(n, w, ((lo + hi) \div 2) + 1, hi) :
            n \in {Sha256Rounds(s, w, lo, (lo + hi) \div 2)}})

Sha256Compress(h, words) ==
    Only({[i \in 1..8 |-> Add32(h[i], s[i])] :
            s \in {Only({Sha256Rounds(h, w, 1, 64) : w \in {Sha256Schedule(words, 48)}})}})

RECURSIVE Sha256Blocks(_, _, _)
Sha256Blocks(h, p, b) ==
    IF 64 * (b - 1) >= Len(p) THEN h
    ELSE Only({Sha256Blocks(n, p, u) :
            n \in {Sha256Compress(h, Sha256Block(p, b))}, u \in {b + 1}})

WordBytes(x) == <<x[1] \div 256, x[1] % 256, x[2] \div 256, x[2] % 256>>

\* the 32-byte digest of the byte string m
Sha256Digest(m) ==
    Only({WordBytes(h[1]) \o WordBytes(h[2]) \o WordBytes(h[3]) \o WordBytes(h[4])
          \o WordBytes(h[5]) \o WordBytes(h[6]) \o WordBytes(h[7]) \o WordBytes(h[8]) :
            h \in {Only({Sha256Blocks(Sha256H0, p, 1) : p \in {Sha256Pad(m)}})}})

(***************************************************************************)
(* Protocol constants of lean_spec.subspecs.networking.config.             *)
(***************************************************************************)
MESSAGE_DOMAIN_VALID_SNAPPY == <<1, 0, 0, 0>>
MESSAGE_DOMAIN_INVALID_SNAPPY == <<0, 0, 0, 0>>

(***************************************************************************)
(* Inputs of compute_message_id.                                           *)
(***************************************************************************)
Threads == {1, 2}

\* b"a" * n
Letters(n) == [i \in 1..n |-> 97]
Foo == <<102, 111, 111>>
Bar == <<98, 97, 114>>
Baz == <<98, 97, 122>>

Topics == {Letters(n) : n \in 0..MaxTopicLen} \cup {Foo}
Payloads == {Letters(n) : n \in 0..MaxDataLen} \cup {Bar}
\* what a decompressor may return
Outputs == Payloads \cup {Baz}

\* exceptions a decompressor raises: the codec's "invalid data" signal and
\* an unrelated internal fault; both are subclasses of Exception
ExceptionKinds == {"UncompressError", "RuntimeError"}

\* snappy_decompress, given as what the callable does on this call's data
NoDecompressor == [kind |-> "none", out |-> <<>>, exc |-> ""]
Returns(o) == [kind |-> "ok", out |-> o, exc |-> ""]
Raises(e) == [kind |-> "raise", out |-> <<>>, exc |-> e]
Decompressors ==
    {NoDecompressor} \cup {Returns(o) : o \in Outputs}
                     \cup {Raises(e) : e \in ExceptionKinds}

(***************************************************************************)
(* _compute_message_id_with_domain                                         *)
(***************************************************************************)
\* n.to_bytes(length, "little"), for an n that fits
RECURSIVE to_bytes_little(_, _)
to_bytes_little(n, length) ==
    IF length = 0 THEN <<>>
    ELSE <<n % 256>> \o to_bytes_little(n \div 256, length - 1)

\* n.to_bytes(length, "big")
RECURSIVE to_bytes_big(_, _)
to_bytes_big(n, length) ==
    IF length = 0 THEN <<>>
    ELSE to_bytes_big(n \div 256, length - 1) \o <<n % 256>>

\* variant: the topic length encoded big-endian
topic_len_bytes_big(topic_) == to_bytes_big(Len(topic_), 8)

\* topic_len_bytes = len(topic).to_bytes(8, "little")
topic_len_bytes(topic_) == to_bytes_little(Len(topic_), 8)

\* variant: the topic length is left out of the hashed string
data_to_hash_without_length(domain_, topic_, message_data_) ==
    domain_ \o topic_ \o message_data_

\* data_to_hash = domain + topic_len_bytes + topic + message_data
data_to_hash_of(domain_, topic_, message_data_) ==
    domain_ \o topic_len_bytes(topic_) \o topic_ \o message_data_

\* every byte string the two paths can hash, and its digest, computed once
HashedStrings ==
    {data_to_hash_of(d, t, m) :
        d \in {MESSAGE_DOMAIN_VALID_SNAPPY, MESSAGE_DOMAIN_INVALID_SNAPPY},
        t \in Topics, m \in Outputs}
Sha256Table == [m \in HashedStrings |-> Sha256Digest(m)]

\* hashlib.sha256(m).digest()
sha256(m) == IF m \in HashedStrings THEN Sha256Table[m] ELSE Sha256Digest(m)

\* variant: the digest is returned whole
WholeDigest(digest) == digest

\* digest[:20]
LeadingBytes(digest) == SubSeq(digest, 1, 20)

compute_message_id_with_domain(domain_, topic_, message_data_) ==
    LeadingBytes(sha256(data_to_hash_of(domain_, topic_, message_data_)))

(***************************************************************************)
(* State.  The first group is each caller's frame of compute_message_id,   *)
(* the second the parameters side.                                         *)
(***************************************************************************)
VARIABLES
    pc,                 \* where each caller is
    topic,              \* argument topic
    data,               \* argument data
    snappy_decompress,  \* argument snappy_decompress
    decompressed_data,  \* local decompressed_data
    domain,             \* argument domain of _compute_message_id_with_domain
    message_data,       \* argument message_data of the same
    data_to_hash,       \* local data_to_hash
    result,             \* the returned MessageId
    config,             \* DEVNET_CONFIG
    class_defined,      \* whether the class body of GossipsubParameters has run
    class_default,      \* the class attribute seen_ttl_secs
    params,             \* the GossipsubParameters instance in use
    kwargs,             \* the keyword arguments it was built from
    built,              \* instances built so far
    error               \* the exception raised by the last operation on params

msg_vars == <<pc, topic, data, snappy_decompress, decompressed_data, domain,
              message_data, data_to_hash, result>>
param_vars == <<config, class_defined, class_default, params, kwargs, built, error>>
vars == <<msg_vars, param_vars>>

(***************************************************************************)
(* compute_message_id                                                      *)
(***************************************************************************)
\* variant: the handler catches the codec's own error only
CatchesUncompressErrorOnly(e) == e = "UncompressError"

\* except Exception: the kinds of exception the handler catches
ExceptClauseCatches(e) == e \in ExceptionKinds

\* variant: the try block hashes the raw data
ValidPathArgsRawData(t) == <<MESSAGE_DOMAIN_VALID_SNAPPY, topic[t], data[t]>>

\* variant: the try block uses the domain of the fallback
ValidPathArgsInvalidDomain(t) ==
    <<MESSAGE_DOMAIN_INVALID_SNAPPY, topic[t], decompressed_data[t]>>

\* the arguments of the call in the try block
ValidPathArgs(t) == <<MESSAGE_DOMAIN_VALID_SNAPPY, topic[t], decompressed_data[t]>>

\* the arguments of the final call
InvalidPathArgs(t) == <<MESSAGE_DOMAIN_INVALID_SNAPPY, topic[t], data[t]>>

\* a caller enters compute_message_id(tp, d, sd) and tests sd against None
Call(t, tp, d, sd) ==
    /\ pc[t] = "idle"
    /\ topic' = [topic EXCEPT ![t] = tp]
    /\ data' = [data EXCEPT ![t] = d]
    /\ snappy_decompress' = [snappy_decompress EXCEPT ![t] = sd]
    /\ pc' = [pc EXCEPT ![t] = IF sd.kind = "none" THEN "invalid" ELSE "try"]
    /\ UNCHANGED <<decompressed_data, domain, message_data, data_to_hash, result>>
    /\ UNCHANGED param_vars

\* snappy_decompress(data) inside the try block: it returns, or it raises and
\* the except clause decides whether the exception leaves the function
Decompress(t) ==
    /\ pc[t] = "try"
    /\ IF snappy_decompress[t].kind = "ok"
       THEN /\ decompressed_data' =
                   [decompressed_data EXCEPT ![t] = snappy_decompress[t].out]
            /\ pc' = [pc EXCEPT ![t] = "valid"]
       ELSE /\ pc' = [pc EXCEPT ![t] =
                   IF ExceptClauseCatches(snappy_decompress[t].exc)
                   THEN "invalid" ELSE "raised"]
            /\ UNCHANGED decompressed_data
    /\ UNCHANGED <<topic, data, snappy_decompress, domain, message_data,
                   data_to_hash, result>>
    /\ UNCHANGED param_vars

\* _compute_message_id_with_domain(args) and the return of its value
ComputeWithDomain(t, args) ==
    /\ domain' = [domain EXCEPT ![t] = args[1]]
    /\ message_data' = [message_data EXCEPT ![t] = args[3]]
    /\ data_to_hash' =
           [data_to_hash EXCEPT ![t] = data_to_hash_of(args[1], args[2], args[3])]
    /\ result' =
           [result EXCEPT ![t] = compute_message_id_with_domain(args[1], args[2], args[3])]
    /\ pc' = [pc EXCEPT ![t] = "done"]
    /\ UNCHANGED <<topic, data, snappy_decompress, decompressed_data>>
    /\ UNCHANGED param_vars

\* the return in the try block
ComputeValid(t) ==
    /\ pc[t] = "valid"
    /\ ComputeWithDomain(t, ValidPathArgs(t))

\* variant: the ID also covers the identity of the caller, as the default
\* message ID of libp2p gossipsub (source peer and sequence number) does
ComputeInvalidPerCaller(t) ==
    /\ pc[t] = "invalid"
    /\ ComputeWithDomain(t, <<MESSAGE_DOMAIN_INVALID_SNAPPY, topic[t], data[t] \o <<t>>>>)

\* the return at the end of the function
ComputeInvalid(t) ==
    /\ pc[t] = "invalid"
    /\ ComputeWithDomain(t, InvalidPathArgs(t))

\* the caller takes the result (or the exception) and its frame is gone
Return(t) ==
    /\ pc[t] \in {"done", "raised"}
    /\ pc' = [pc EXCEPT ![t] = "idle"]
    /\ topic' = [topic EXCEPT ![t] = <<>>]
    /\ data' = [data EXCEPT ![t] = <<>>]
    /\ snappy_decompress' = [snappy_decompress EXCEPT ![t] = NoDecompressor]
    /\ decompressed_data' = [decompressed_data EXCEPT ![t] = <<>>]
    /\ domain' = [domain EXCEPT ![t] = <<>>]
    /\ message_data' = [message_data EXCEPT ![t] = <<>>]
    /\ data_to_hash' = [data_to_hash EXCEPT ![t] = <<>>]
    /\ result' = [result EXCEPT ![t] = <<>>]
    /\ UNCHANGED param_vars

(***************************************************************************)
(* GossipsubParameters                                                     *)
(***************************************************************************)
\* the chain configurations DEVNET_CONFIG may hold
ChainConfigs ==
    [second_per_slot : 1..MaxSecondPerSlot,
     justification_lookback_slots : 1..MaxLookbackSlots]

\* the right-hand side of the class attribute seen_ttl_secs
SeenTtlExpression ==
    config.second_per_slot * config.justification_lookback_slots * 2

NumericFields ==
    {"d", "d_low", "d_high", "d_lazy", "heartbeat_interval_secs",
     "fanout_ttl_secs", "mcache_len", "mcache_gossip", "seen_ttl_secs"}

\* variant: the default of seen_ttl_secs is evaluated at each construction
FieldDefaultsAtConstruction ==
    [protocol_id |-> "/meshsub/1.0.0",
     d |-> 8,
     d_low |-> 6,
     d_high |-> 12,
     d_lazy |-> 6,
     heartbeat_interval_secs |-> 7,
     fanout_ttl_secs |-> 60,
     mcache_len |-> 6,
     mcache_gossip |-> 3,
     seen_ttl_secs |-> SeenTtlExpression]

\* the field defaults of the class; heartbeat_interval_secs, a float, is
\* counted in tenths of a second
FieldDefaults ==
    [protocol_id |-> "/meshsub/1.0.0",
     d |-> 8,
     d_low |-> 6,
     d_high |-> 12,
     d_lazy |-> 6,
     heartbeat_interval_secs |-> 7,
     fanout_ttl_secs |-> 60,
     mcache_len |-> 6,
     mcache_gossip |-> 3,
     seen_ttl_secs |-> class_default]

\* values passed explicitly for a field
OverrideValues == {-1, 0, 1, 7, 9, 13}

\* keyword arguments of a construction: none, or one numeric field
Kwargs == {<<>>} \cup {f :> v : f \in NumericFields, v \in OverrideValues}

\* the fields of GossipsubParameters(**kw): the class declares no validator,
\* each field is the keyword argument or else the class default
FieldsOf(kw) ==
    [f \in DOMAIN FieldDefaults |-> IF f \in DOMAIN kw THEN kw[f] ELSE FieldDefaults[f]]

\* variant: instances accept attribute assignment
NotFrozen == FALSE

\* StrictBaseModel: instances are frozen
StrictBaseModelFrozen == TRUE

NoInstance == [id |-> 0, fields |-> <<>>]

\* the module is imported: the class body runs and evaluates the defaults
DefineClass ==
    /\ ~class_defined
    /\ class_defined' = TRUE
    /\ class_default' = SeenTtlExpression
    /\ UNCHANGED <<config, params, kwargs, built, error>>
    /\ UNCHANGED msg_vars

\* the chain configuration is given other values
SetChainConfig(c) ==
    /\ c # config
    /\ config' = c
    /\ UNCHANGED <<class_defined, class_default, params, kwargs, built, error>>
    /\ UNCHANGED msg_vars

\* params = GossipsubParameters(**kw)
Construct(kw) ==
    /\ class_defined
    /\ built < MaxInstances
    /\ built' = built + 1
    /\ params' = [id |-> built + 1, fields |-> FieldsOf(kw)]
    /\ kwargs' = kw
    /\ error' = ""
    /\ UNCHANGED <<config, class_defined, class_default>>
    /\ UNCHANGED msg_vars

\* params.f = v
SetAttr(f, v) ==
    /\ params.id > 0
    /\ IF StrictBaseModelFrozen
       THEN /\ error' = "ValidationError"
            /\ UNCHANGED params
       ELSE /\ error' = ""
            /\ params' = [params EXCEPT !.fields[f] = v]
    /\ UNCHANGED <<config, class_defined, class_default, kwargs, built>>
    /\ UNCHANGED msg_vars

(***************************************************************************)
(* Specifications                                                          *)
(***************************************************************************)
Init ==
    /\ pc = [t \in Threads |-> "idle"]
    /\ topic = [t \in Threads |-> <<>>]
    /\ data = [t \in Threads |-> <<>>]
    /\ snappy_decompress = [t \in Threads |-> NoDecompressor]
    /\ decompressed_data = [t \in Threads |-> <<>>]
    /\ domain = [t \in Threads |-> <<>>]
    /\ message_data = [t \in Threads |-> <<>>]
    /\ data_to_hash = [t \in Threads |-> <<>>]
    /\ result = [t \in Threads |-> <<>>]
    /\ config = [second_per_slot |-> 1, justification_lookback_slots |-> 1]
    /\ class_defined = FALSE
    /\ class_default = 0
    /\ params = NoInstance
    /\ kwargs = <<>>
    /\ built = 0
    /\ error = ""

\* the callers of compute_message_id
Next ==
    \E t \in Threads :
        \/ \E tp \in Topics, d \in Payloads, sd \in Decompressors : Call(t, tp, d, sd)
        \/ Decompress(t)
        \/ ComputeValid(t)
        \/ ComputeInvalid(t)
        \/ Return(t)

Spec == Init /\ [][Next]_vars

\* the life of the parameters
ParamNext ==
    \/ DefineClass
    \/ \E c \in ChainConfigs : SetChainConfig(c)
    \/ \E kw \in Kwargs : Construct(kw)
    \/ \E f \in NumericFields, v \in OverrideValues : SetAttr(f, v)

ParamSpec == Init /\ [][ParamNext]_vars

(***************************************************************************)
(* Properties                                                              *)
(***************************************************************************)
IsBytes(b) == \A i \in 1..Len(b) : b[i] \in 0..255

\* the value of 8 little-endian bytes that stay below 2^24
LittleEndianValue(b) == b[1] + 256 * b[2] + 65536 * b[3]

\* both callers hold the result of a finished call
BothDone(t, u) == pc[t] = "done" /\ pc[u] = "done"

\* both calls were entered with the same topic and the same data
SameMessage(t, u) == topic[t] = topic[u] /\ data[t] = data[u]

\* C1: a call whose decompressor raises, whatever the exception, does not
\* raise, and returns the same MessageId as the call on the same topic and
\* data with no decompressor.
C1_FailureAbsorbed ==
    \A t \in Threads :
        snappy_decompress[t].kind = "raise" =>
            /\ pc[t] # "raised"
            /\ \A u \in Threads :
                   ( /\ BothDone(t, u)
                     /\ SameMessage(t, u)
                     /\ snappy_decompress[u] = NoDecompressor )
                   => result[t] = result[u]

\* C1: topic b"foo", data b"bar"; one caller's decompressor raised an error
\* that is not the codec's, the other had none; both returned the same ID
C1_Witness ==
    /\ BothDone(1, 2)
    /\ topic[1] = Foo /\ data[1] = Bar /\ topic[2] = Foo /\ data[2] = Bar
    /\ snappy_decompress[1] = Raises("RuntimeError")
    /\ snappy_decompress[2] = NoDecompressor
    /\ Len(result[1]) > 0
    /\ result[1] = result[2]

\* C2: a finished call hashed the valid domain with the decompressor's
\* result if a decompressor was given and returned, and the invalid domain
\* with the data as passed in every other case; no other pair is hashed.
\* With topic b"foo" and data b"bar", a decompressor returning b"baz" gives
\* an ID other than the one of the call with no decompressor.
C2_DomainAndPayload ==
    \A t \in Threads :
        pc[t] = "done" =>
            /\ IF snappy_decompress[t].kind = "ok"
               THEN /\ domain[t] = MESSAGE_DOMAIN_VALID_SNAPPY
                    /\ message_data[t] = snappy_decompress[t].out
               ELSE /\ domain[t] = MESSAGE_DOMAIN_INVALID_SNAPPY
                    /\ message_data[t] = data[t]
            /\ SubSeq(data_to_hash[t], 1, 4) = domain[t]
            /\ SubSeq(data_to_hash[t], 13 + Len(topic[t]), Len(data_to_hash[t]))
                   = message_data[t]
            /\ \A u \in Threads :
                   ( /\ pc[u] = "done"
                     /\ topic[t] = Foo /\ data[t] = Bar
                     /\ snappy_decompress[t] = Returns(Baz)
                     /\ SameMessage(t, u)
                     /\ snappy_decompress[u] = NoDecompressor )
                   => result[t] # result[u]

\* C2: topic b"foo", data b"bar", decompressed to b"baz" by one caller and
\* hashed as passed by the other
C2_Witness ==
    /\ BothDone(1, 2)
    /\ topic[1] = Foo /\ data[1] = Bar /\ snappy_decompress[1] = Returns(Baz)
    /\ topic[2] = Foo /\ data[2] = Bar /\ snappy_decompress[2] = NoDecompressor
    /\ domain[1] = MESSAGE_DOMAIN_VALID_SNAPPY /\ message_data[1] = Baz
    /\ domain[2] = MESSAGE_DOMAIN_INVALID_SNAPPY /\ message_data[2] = Bar

\* C3: the hashed string is the 4-byte domain, the topic length as 8
\* little-endian bytes, the topic and the effective payload, in that order
\* and nothing else, and the ID is the first 20 bytes of its SHA-256 digest.
\* The topic b"foo" contributes 03 00 00 00 00 00 00 00; an empty topic and
\* empty data with no decompressor hash the invalid domain and eight zeros.
C3_HashInputLayout ==
    \A t \in Threads :
        pc[t] = "done" =>
            /\ Len(domain[t]) = 4
            /\ IsBytes(data_to_hash[t])
            /\ Len(data_to_hash[t]) = 4 + 8 + Len(topic[t]) + Len(message_data[t])
            /\ SubSeq(data_to_hash[t], 1, 4) = domain[t]
            /\ LittleEndianValue(SubSeq(data_to_hash[t], 5, 12)) = Len(topic[t])
            /\ \A i \in 8..12 : data_to_hash[t][i] = 0
            /\ SubSeq(data_to_hash[t], 13, 12 + Len(topic[t])) = topic[t]
            /\ SubSeq(data_to_hash[t], 13 + Len(topic[t]), Len(data_to_hash[t]))
                   = message_data[t]
            /\ result[t] = SubSeq(sha256(data_to_hash[t]), 1, 20)
            /\ (topic[t] = Foo =>
                   SubSeq(data_to_hash[t], 5, 12) = <<3, 0, 0, 0, 0, 0, 0, 0>>)
            /\ (topic[t] = <<>> /\ data[t] = <<>> /\ snappy_decompress[t] = NoDecompressor =>
                   data_to_hash[t] =
                       MESSAGE_DOMAIN_INVALID_SNAPPY \o <<0, 0, 0, 0, 0, 0, 0, 0>>)

\* C3: the two calls without decompressor, on b"" / b"" and on b"foo" /
\* b"bar", with the IDs hashlib gives for the two byte strings
C3_Witness ==
    /\ BothDone(1, 2)
    /\ topic[1] = <<>> /\ data[1] = <<>> /\ snappy_decompress[1] = NoDecompressor
    /\ topic[2] = Foo /\ data[2] = Bar /\ snappy_decompress[2] = NoDecompressor
    /\ data_to_hash[2] = <<0, 0, 0, 0, 3, 0, 0, 0, 0, 0, 0, 0, 102, 111, 111, 98, 97, 114>>
    /\ result[1] = <<21, 236, 123, 240, 181, 7, 50, 180, 159, 130, 40, 224, 125,
                     36, 54, 83, 56, 249, 227, 171>>
    /\ result[2] = <<145, 223, 97, 31, 199, 207, 147, 10, 137, 50, 34, 97, 162,
                     65, 188, 150, 150, 84, 169, 128>>

\* C4: for one topic and one data, the call whose decompressor returned and
\* the call with no decompressor or a raising one hash strings that differ
\* in their first four bytes, also when the decompressor returned the data
\* unchanged.
C4_DomainSeparation ==
    \A t, u \in Threads :
        ( /\ BothDone(t, u)
          /\ SameMessage(t, u)
          /\ snappy_decompress[t].kind = "ok"
          /\ snappy_decompress[u].kind # "ok" )
        => /\ SubSeq(data_to_hash[t], 1, 4) # SubSeq(data_to_hash[u], 1, 4)
           /\ data_to_hash[t] # data_to_hash[u]

\* C4: the decompressor of one caller returned the data unchanged, the
\* decompressor of the other raised
C4_Witness ==
    /\ BothDone(1, 2)
    /\ SameMessage(1, 2)
    /\ Len(data[1]) > 0
    /\ snappy_decompress[1] = Returns(data[1])
    /\ snappy_decompress[2].kind = "raise"
    /\ SubSeq(data_to_hash[1], 5, Len(data_to_hash[1]))
           = SubSeq(data_to_hash[2], 5, Len(data_to_hash[2]))

\* C6: every returned MessageId is exactly 20 bytes long.
C6_TwentyBytes ==
    \A t \in Threads :
        pc[t] = "done" => Len(result[t]) = 20 /\ IsBytes(result[t])

\* C6: an empty topic with empty data and no decompressor, and a call whose
\* decompressor returned, both gave 20 bytes
C6_Witness ==
    /\ BothDone(1, 2)
    /\ topic[1] = <<>> /\ data[1] = <<>> /\ snappy_decompress[1] = NoDecompressor
    /\ snappy_decompress[2].kind = "ok"
    /\ Len(result[1]) = 20 /\ Len(result[2]) = 20

\* C7: two calls with the same topic, the same data and the same behaviour
\* of the decompressor return the same MessageId, whatever the other caller
\* did before or does in between.
C7_Deterministic ==
    \A t, u \in Threads :
        ( /\ BothDone(t, u)
          /\ SameMessage(t, u)
          /\ snappy_decompress[t] = snappy_decompress[u] )
        => result[t] = result[u]

\* C7: two finished calls on the same non-empty inputs with a raising
\* decompressor
C7_Witness ==
    /\ BothDone(1, 2)
    /\ SameMessage(1, 2)
    /\ topic[1] = Foo /\ data[1] = Bar
    /\ snappy_decompress[1] = Raises("UncompressError")
    /\ snappy_decompress[2] = snappy_decompress[1]
    /\ Len(result[1]) = 20 /\ result[1] = result[2]

\* C10: within one domain, two calls that hashed the same string had the
\* same topic and the same effective payload.
C10_InjectiveEncoding ==
    \A t, u \in Threads :
        ( /\ BothDone(t, u)
          /\ domain[t] = domain[u]
          /\ data_to_hash[t] = data_to_hash[u] )
        => topic[t] = topic[u] /\ message_data[t] = message_data[u]

\* C10: two calls in one domain whose topic and payload concatenate to the
\* same bytes but are split at different places
C10_Witness ==
    /\ BothDone(1, 2)
    /\ domain[1] = domain[2]
    /\ topic[1] # topic[2]
    /\ topic[1] \o message_data[1] = topic[2] \o message_data[2]
    /\ data_to_hash[1] # data_to_hash[2]

\* the ordering and positivity conditions on the fields of an instance
ValidParameters(p) ==
    /\ p.d_low <= p.d
    /\ p.d <= p.d_high
    /\ \A f \in NumericFields : p[f] > 0

\* C5: every instance that was constructed has d_low <= d <= d_high and all
\* numeric fields strictly positive (a construction that breaks this fails).
C5_ConstructionValidates ==
    params.id > 0 => ValidParameters(params.fields)

\* C8: no operation changes a field of a constructed instance; another
\* value takes another instance.
C8_Immutable ==
    [][params.id > 0 /\ params'.id = params.id => params'.fields = params.fields]_vars

\* C8: an assignment to an attribute of an instance was attempted
C8_Witness ==
    /\ params.id > 0
    /\ error = "ValidationError"

\* C9 as stated: seen_ttl_secs of an instance built without an explicit value
\* is 2 x second_per_slot x justification_lookback_slots of the chain
\* configuration at the construction of the instance, and stays.
C9_ComputedAtConstruction ==
    [][ /\ ( params'.id # params.id /\ "seen_ttl_secs" \notin DOMAIN kwargs' )
           => params'.fields.seen_ttl_secs =
                  2 * config.second_per_slot * config.justification_lookback_slots
        /\ ( params.id > 0 /\ params'.id = params.id )
           => params'.fields.seen_ttl_secs = params.fields.seen_ttl_secs ]_vars

\* C9: the class default of seen_ttl_secs is 2 x second_per_slot x
\* justification_lookback_slots of the chain configuration when the class is
\* defined; it is computed once, every instance built without an explicit
\* value takes it, and neither changes when the chain configuration does.
C9_ComputedAtClassDefinition ==
    [][ /\ ( ~class_defined /\ class_defined' )
           => class_default' =
                  2 * config.second_per_slot * config.justification_lookback_slots
        /\ class_defined => ( class_defined' /\ class_default' = class_default )
        /\ ( params'.id # params.id /\ "seen_ttl_secs" \notin DOMAIN kwargs' )
           => params'.fields.seen_ttl_secs = class_default
        /\ ( params.id > 0 /\ params'.id = params.id )
           => params'.fields.seen_ttl_secs = params.fields.seen_ttl_secs ]_vars

\* C9: an instance built without an explicit seen_ttl_secs holds the class
\* default while the chain configuration has other values
C9_Witness ==
    /\ params.id > 0
    /\ "seen_ttl_secs" \notin DOMAIN kwargs
    /\ params.fields.seen_ttl_secs = class_default
    /\ params.fields.seen_ttl_secs #
           2 * config.second_per_slot * config.justification_lookback_slots

====
